---- MODULE Spec2Model ----
(***************************************************************************)
(* ai-dev-agent: the init command (cmd/init.go) and the repository         *)
(* mutation engine (internal/github/git.go) against a model of the hosting *)
(* platform's Git data API.                                                *)
(*                                                                         *)
(* A SHA is modelled as the index of the object in the platform's object   *)
(* store; 0 is the empty string "" (no SHA).                               *)
(***************************************************************************)
EXTENDS Naturals, Sequences, FiniteSets

VARIABLES
  repo,     \* the repository on the platform: [exists, owner, name]
  blobs,    \* blob store: blobs[s] is the content of blob s
  trees,    \* tree store: trees[s] maps each path to a blob SHA (0: absent)
  commits,  \* commit store: commits[s] = [tree, parent] (parent 0: none)
  ref,      \* refs/heads/main: a commit SHA, or 0 when the branch does not exist
  issues,   \* the issues filed in the repository, in order
  env,      \* process environment: [username] (GITHUB_USERNAME)
  call,     \* per writer: the frame of its CreateBranchAndCommit invocation
  run,      \* the frame of initCmd.Run
  reqs,     \* the requests initCmd.Run itself has issued, in order
  unit      \* the frame of one function called on its own: [fn, arg, outs]

vars == <<repo, blobs, trees, commits, ref, issues, env, call, run, reqs, unit>>

platform == <<repo, blobs, trees, commits, ref, issues>>

----------------------------------------------------------------------------
(* Bounds *)

\* longest batch of files handed to one CreateBranchAndCommit call
MaxBatch == 2

\* blobs the platform stores before the caller stops issuing calls
MaxBlobs == 3

\* longest task list the model endpoint returns
MaxTasks == 2

----------------------------------------------------------------------------
(* Values *)

Writers == {"w1", "w2"}

Paths == {"README.md", "main.go"}

Contents == {"c1", "c2"}

\* the content of the README the platform writes on auto-initialisation
AutoReadme == "auto"

\* File{Path, Content}
Files == [path : Paths, content : Contents]

\* the account the GITHUB_TOKEN belongs to, and the values GITHUB_USERNAME may hold
TokenLogin == "alice"

Usernames == {"alice", "bob", ""}

RECURSIVE SeqsUpTo(_, _)
SeqsUpTo(S, n) ==
  IF n = 0 THEN {<<>>}
  ELSE LET shorter == SeqsUpTo(S, n - 1)
       IN shorter \cup {Append(s, x) : s \in {t \in shorter : Len(t) = n - 1}, x \in S}

----------------------------------------------------------------------------
(* The platform's object model *)

EmptyTree == [p \in Paths |-> 0]

\* LayerTree keeping nothing of the base: the tree holds the entry alone
LayerTree_Alone(base, path, blobSHA) == [p \in Paths |-> IF p = path THEN blobSHA ELSE 0]

\* the tree the platform builds for POST /git/trees: the entry layered on the base
LayerTree(base, path, blobSHA) == [base EXCEPT ![path] = blobSHA]

\* the content a tree holds at a path ("" when the path is absent)
ContentAt(t, p) == IF trees[t][p] = 0 THEN "" ELSE blobs[trees[t][p]]

\* the paths a tree has an entry for
Entries(t) == {p \in Paths : trees[t][p] # 0}

RECURSIVE History(_)
\* the commits reachable from c through parent links, tip first
History(c) == IF c = 0 THEN <<>> ELSE <<c>> \o History(commits[c].parent)

\* the state of a repository created with auto_init: one commit holding a README
AutoInitBlobs == <<AutoReadme>>
AutoInitTrees == <<LayerTree(EmptyTree, "README.md", 1)>>
AutoInitCommits == <<[tree |-> 1, parent |-> 0]>>

----------------------------------------------------------------------------
(* Responses.  "ok": 2xx with the documented body.  "nosha": 2xx whose body *)
(* is JSON without the sha fields.  "badjson": 2xx whose body is not JSON.  *)
(* "msg": 2xx whose body is a JSON object with a non-empty "message" and    *)
(* no sha.  "fail": a transport error or a status >= 300.  "empty": the     *)
(* platform's 409 "Git Repository is empty." for a branch with no commit.   *)

Is2xx(resp) == resp \in {"ok", "nosha", "badjson", "msg"}

\* what json.Unmarshal leaves in a struct's SHA field
ShaOf(resp, sha) == IF resp = "ok" THEN sha ELSE 0

\* strings.Contains(err.Error(), "Git Repository is empty")
IsEmptyRepoError(err) == err = "EmptyRepo"

\* the error doGet/doPost/doPatch return for a response
TransportErr(resp) ==
  CASE resp = "fail" -> "Http"
    [] resp = "empty" -> "EmptyRepo"
    [] OTHER -> "nil"

----------------------------------------------------------------------------
(* The platform's answers.  A request addressed to a repository that does   *)
(* not exist, or naming an object the platform does not hold, is refused.   *)

TargetExists(fr) == repo.exists /\ fr.owner = repo.owner /\ fr.name = repo.name

GetRefResponses(fr) ==
  IF ~TargetExists(fr) THEN {"fail"}
  ELSE IF ref = 0 THEN {"empty", "fail"}
  ELSE {"ok", "nosha", "badjson", "fail"}

GetCommitResponses(fr, sha) ==
  IF ~TargetExists(fr) \/ sha \notin 1..Len(commits) THEN {"fail"}
  ELSE {"ok", "nosha", "badjson", "fail"}

PostBlobResponses(fr) ==
  IF ~TargetExists(fr) THEN {"fail"} ELSE {"ok", "nosha", "badjson", "fail"}

\* bases: the base_tree of the request, a sequence of at most one SHA
PostTreeResponses(fr, bases, blobSHA) ==
  IF \/ ~TargetExists(fr)
     \/ blobSHA \notin 1..Len(blobs)
     \/ \E i \in 1..Len(bases) : bases[i] \notin 1..Len(trees)
  THEN {"fail"}
  ELSE {"ok", "nosha", "badjson", "fail"}

\* parents: the parents of the request, a sequence of at most one SHA
PostCommitResponses(fr, treeSHA, parents) ==
  IF \/ ~TargetExists(fr)
     \/ treeSHA \notin 1..Len(trees)
     \/ \E i \in 1..Len(parents) : parents[i] \notin 1..Len(commits)
  THEN {"fail"}
  ELSE {"ok", "nosha", "badjson", "fail"}

\* POST /git/refs: refused when the reference already exists
PostRefResponses(fr, sha) ==
  IF ~TargetExists(fr) \/ sha \notin 1..Len(commits) \/ ref # 0 THEN {"fail"}
  ELSE {"ok", "msg", "fail"}

\* the commit named to is the commit named from or a descendant of it
FastForward(from, to) == \E i \in 1..Len(History(to)) : History(to)[i] = from

\* PATCH /git/refs/heads/main: refused when the reference does not exist, and,
\* unless the request says "force", when the update is not a fast-forward
PatchRefResponses(fr, sha, force) ==
  IF \/ ~TargetExists(fr)
     \/ sha \notin 1..Len(commits)
     \/ ref = 0
     \/ ~force /\ ~FastForward(ref, sha)
  THEN {"fail"}
  ELSE {"ok", "msg", "fail"}

----------------------------------------------------------------------------
(* Frames of CreateBranchAndCommit *)

\* the name of the repository the commit engine's caller works on
RepoName == <<"a", "i", "-", "a">>

IdleFrame ==
  [pc |-> "idle", owner |-> "", name |-> <<>>, files |-> <<>>, idx |-> 0,
   blobSHA |-> 0, refSHA |-> 0, baseCommitSHA |-> 0, baseTreeSHA |-> 0,
   treeSHA |-> 0, commitSHA |-> 0, err |-> "nil", sent |-> <<>>, tip0 |-> 0]

\* the frame on entry: owner := os.Getenv("GITHUB_USERNAME"); tip0 records the
\* branch tip at the moment of the call
EntryFrame(name, files) ==
  [IdleFrame EXCEPT !.pc = "probe_ref", !.owner = env.username, !.name = name,
                    !.files = files, !.tip0 = ref]

\* one request sent: the URL's owner and repository, the file it is for, the
\* SHAs it carries and the response it got
Sent(fr, op, shas, resp) ==
  [fr EXCEPT !.sent = Append(@, [op |-> op, owner |-> fr.owner, name |-> fr.name,
                                 k |-> fr.idx, shas |-> shas, res |-> resp])]

\* return err: the locals go out of scope
Return(fr, err) ==
  [fr EXCEPT !.pc = "returned", !.err = err, !.blobSHA = 0, !.refSHA = 0,
             !.baseCommitSHA = 0, !.baseTreeSHA = 0, !.treeSHA = 0, !.commitSHA = 0]

\* the next iteration of "for _, file := range files", or return nil after the last
NextFile(fr) ==
  IF fr.idx < Len(fr.files)
  THEN [fr EXCEPT !.pc = "blob", !.idx = fr.idx + 1, !.blobSHA = 0, !.refSHA = 0,
                  !.baseCommitSHA = 0, !.baseTreeSHA = 0, !.treeSHA = 0, !.commitSHA = 0]
  ELSE Return(fr, "nil")

\* OnBaseError without the bootstrap: every error of the probe is returned
OnBaseError_NoBootstrap(fr, err, probing) == Return(fr, err)

\* OnBaseError taking every error of the probe for an empty repository
OnBaseError_AnyError(fr, err, probing) ==
  IF probing /\ Len(fr.files) > 0
  THEN [fr EXCEPT !.pc = "init_blob", !.idx = 1]
  ELSE Return(fr, err)

\* OnBaseError without the test of len(files): an empty repository is handed to
\* InitializeRepoWithReadme whatever the batch holds
OnBaseError_NoLenGuard(fr, err, probing) ==
  IF probing /\ IsEmptyRepoError(err)
  THEN [fr EXCEPT !.pc = "init_blob", !.idx = 1]
  ELSE Return(fr, err)

\* what CreateBranchAndCommit does with an error of getBaseCommitAndTree: the
\* probe before the loop hands an empty repository to InitializeRepoWithReadme
\* with files[0]; every other error is returned
OnBaseError(fr, err, probing) ==
  IF probing /\ Len(fr.files) > 0 /\ IsEmptyRepoError(err)
  THEN [fr EXCEPT !.pc = "init_blob", !.idx = 1]
  ELSE Return(fr, err)

\* OnBaseResult keeping, for every file, the base read when the call was entered
OnBaseResult_Stale(fr, commitSHA, treeSHA, probing) ==
  IF probing
  THEN NextFile([fr EXCEPT !.refSHA = 0])
  ELSE [fr EXCEPT !.baseCommitSHA = fr.tip0, !.baseTreeSHA = commits[fr.tip0].tree,
                  !.refSHA = 0, !.pc = "tree"]

\* what CreateBranchAndCommit does with a result of getBaseCommitAndTree: the
\* probe discards it and enters the loop; the loop keeps it for tree and commit
OnBaseResult(fr, commitSHA, treeSHA, probing) ==
  IF probing
  THEN NextFile([fr EXCEPT !.refSHA = 0])
  ELSE [fr EXCEPT !.baseCommitSHA = commitSHA, !.baseTreeSHA = treeSHA,
                  !.refSHA = 0, !.pc = "tree"]

----------------------------------------------------------------------------
(* getBaseCommitAndTree: GET the reference, then GET the commit it names *)

GetRefStep(w, here, next, probing) ==
  /\ call[w].pc = here
  /\ \E resp \in GetRefResponses(call[w]) :
       LET fr == Sent(call[w], "get_ref", <<>>, resp)
           sha == ShaOf(resp, ref)
           err == IF TransportErr(resp) # "nil" THEN TransportErr(resp)
                  ELSE IF resp = "badjson" THEN "Unmarshal"
                  ELSE IF sha = 0 THEN "NoRefSHA"
                  ELSE "nil"
       IN call' = [call EXCEPT ![w] =
                     IF err # "nil" THEN OnBaseError(fr, err, probing)
                     ELSE [fr EXCEPT !.refSHA = sha, !.pc = next]]
  /\ UNCHANGED <<platform, env, unit, run, reqs>>

GetCommitStep(w, here, probing) ==
  /\ call[w].pc = here
  /\ \E resp \in GetCommitResponses(call[w], call[w].refSHA) :
       LET fr == Sent(call[w], "get_commit", <<call[w].refSHA>>, resp)
           commitSHA == ShaOf(resp, call[w].refSHA)
           treeSHA == IF resp = "ok" THEN commits[call[w].refSHA].tree ELSE 0
           err == IF TransportErr(resp) # "nil" THEN TransportErr(resp)
                  ELSE IF resp = "badjson" THEN "Unmarshal"
                  ELSE IF commitSHA = 0 \/ treeSHA = 0 THEN "NoCommitSHA"
                  ELSE "nil"
       IN call' = [call EXCEPT ![w] =
                     IF err # "nil" THEN OnBaseError(fr, err, probing)
                     ELSE OnBaseResult(fr, commitSHA, treeSHA, probing)]
  /\ UNCHANGED <<platform, env, unit, run, reqs>>

\* git.go:93, first request
ProbeRef(w) == GetRefStep(w, "probe_ref", "probe_commit", TRUE)

\* git.go:93, second request
ProbeCommit(w) == GetCommitStep(w, "probe_commit", TRUE)

\* git.go:112, first request
BaseRef(w) == GetRefStep(w, "base_ref", "base_commit", FALSE)

\* git.go:112, second request
BaseCommit(w) == GetCommitStep(w, "base_commit", FALSE)

----------------------------------------------------------------------------
(* createBlob, shared by the bootstrap and the loop *)

\* CreateBlobStep going on after an error of doPost
CreateBlobStep_SwallowsError(w, here, next) ==
  /\ call[w].pc = here
  /\ \E resp \in PostBlobResponses(call[w]) :
       LET fr == Sent(call[w], "post_blob", <<>>, resp)
           file == call[w].files[call[w].idx]
       IN /\ blobs' = IF Is2xx(resp) THEN Append(blobs, file.content) ELSE blobs
          /\ call' = [call EXCEPT ![w] =
                        [fr EXCEPT !.blobSHA = ShaOf(resp, Len(blobs) + 1), !.pc = next]]
  /\ UNCHANGED <<repo, trees, commits, ref, issues, env, unit, run, reqs>>

CreateBlobStep(w, here, next) ==
  /\ call[w].pc = here
  /\ \E resp \in PostBlobResponses(call[w]) :
       LET fr == Sent(call[w], "post_blob", <<>>, resp)
           file == call[w].files[call[w].idx]
       IN /\ blobs' = IF Is2xx(resp) THEN Append(blobs, file.content) ELSE blobs
          /\ call' = [call EXCEPT ![w] =
                        IF TransportErr(resp) # "nil" THEN Return(fr, TransportErr(resp))
                        ELSE [fr EXCEPT !.blobSHA = ShaOf(resp, Len(blobs) + 1),
                                        !.pc = next]]
  /\ UNCHANGED <<repo, trees, commits, ref, issues, env, unit, run, reqs>>

----------------------------------------------------------------------------
(* InitializeRepoWithReadme *)

InitBlob(w) == CreateBlobStep(w, "init_blob", "init_tree")

\* a tree without a base tree
InitTree(w) ==
  /\ call[w].pc = "init_tree"
  /\ \E resp \in PostTreeResponses(call[w], <<>>, call[w].blobSHA) :
       LET fr == Sent(call[w], "post_tree", <<call[w].blobSHA>>, resp)
           file == call[w].files[call[w].idx]
       IN /\ trees' = IF Is2xx(resp)
                      THEN Append(trees, LayerTree(EmptyTree, file.path, call[w].blobSHA))
                      ELSE trees
          /\ call' = [call EXCEPT ![w] =
                        IF TransportErr(resp) # "nil" THEN Return(fr, TransportErr(resp))
                        ELSE IF resp = "badjson" THEN Return(fr, "Unmarshal")
                        ELSE [fr EXCEPT !.treeSHA = ShaOf(resp, Len(trees) + 1),
                                        !.pc = "init_commit"]]
  /\ UNCHANGED <<repo, blobs, commits, ref, issues, env, unit, run, reqs>>

\* a commit without a parent
InitCommit(w) ==
  /\ call[w].pc = "init_commit"
  /\ \E resp \in PostCommitResponses(call[w], call[w].treeSHA, <<>>) :
       LET fr == Sent(call[w], "post_commit", <<call[w].treeSHA>>, resp)
       IN /\ commits' = IF Is2xx(resp)
                        THEN Append(commits, [tree |-> call[w].treeSHA, parent |-> 0])
                        ELSE commits
          /\ call' = [call EXCEPT ![w] =
                        IF TransportErr(resp) # "nil" THEN Return(fr, TransportErr(resp))
                        ELSE IF resp = "badjson" THEN Return(fr, "Unmarshal")
                        ELSE [fr EXCEPT !.commitSHA = ShaOf(resp, Len(commits) + 1),
                                        !.pc = "init_ref"]]
  /\ UNCHANGED <<repo, blobs, trees, ref, issues, env, unit, run, reqs>>

\* create refs/heads/main; InitializeRepoWithReadme returns, and
\* CreateBranchAndCommit returns its result (git.go:98)
InitRef(w) ==
  /\ call[w].pc = "init_ref"
  /\ \E resp \in PostRefResponses(call[w], call[w].commitSHA) :
       LET fr == Sent(call[w], "post_ref", <<call[w].commitSHA>>, resp)
       IN /\ ref' = IF Is2xx(resp) THEN call[w].commitSHA ELSE ref
          /\ call' = [call EXCEPT ![w] = Return(fr, TransportErr(resp))]
  /\ UNCHANGED <<repo, blobs, trees, commits, issues, env, unit, run, reqs>>

----------------------------------------------------------------------------
(* The loop of CreateBranchAndCommit *)

CreateBlob(w) == CreateBlobStep(w, "blob", "base_ref")

\* CreateTree sending no base_tree: the new tree holds the file alone
CreateTree_NoBase(w) ==
  /\ call[w].pc = "tree"
  /\ \E resp \in PostTreeResponses(call[w], <<>>, call[w].blobSHA) :
       LET fr == Sent(call[w], "post_tree", <<call[w].blobSHA>>, resp)
           file == call[w].files[call[w].idx]
       IN /\ trees' = IF Is2xx(resp)
                      THEN Append(trees, LayerTree(EmptyTree, file.path, call[w].blobSHA))
                      ELSE trees
          /\ call' = [call EXCEPT ![w] =
                        IF TransportErr(resp) # "nil" THEN Return(fr, TransportErr(resp))
                        ELSE [fr EXCEPT !.treeSHA = ShaOf(resp, Len(trees) + 1),
                                        !.pc = "commit"]]
  /\ UNCHANGED <<repo, blobs, commits, ref, issues, env, unit, run, reqs>>

\* createTree: the file layered on the base tree
CreateTree(w) ==
  /\ call[w].pc = "tree"
  /\ \E resp \in PostTreeResponses(call[w], <<call[w].baseTreeSHA>>, call[w].blobSHA) :
       LET fr == Sent(call[w], "post_tree", <<call[w].blobSHA, call[w].baseTreeSHA>>, resp)
           file == call[w].files[call[w].idx]
       IN /\ trees' = IF Is2xx(resp)
                      THEN Append(trees, LayerTree(trees[call[w].baseTreeSHA], file.path,
                                                   call[w].blobSHA))
                      ELSE trees
          /\ call' = [call EXCEPT ![w] =
                        IF TransportErr(resp) # "nil" THEN Return(fr, TransportErr(resp))
                        ELSE [fr EXCEPT !.treeSHA = ShaOf(resp, Len(trees) + 1),
                                        !.pc = "commit"]]
  /\ UNCHANGED <<repo, blobs, commits, ref, issues, env, unit, run, reqs>>

\* CreateCommit sending no parents: the new commit is a root
CreateCommit_NoParent(w) ==
  /\ call[w].pc = "commit"
  /\ \E resp \in PostCommitResponses(call[w], call[w].treeSHA, <<>>) :
       LET fr == Sent(call[w], "post_commit", <<call[w].treeSHA>>, resp)
       IN /\ commits' = IF Is2xx(resp)
                        THEN Append(commits, [tree |-> call[w].treeSHA, parent |-> 0])
                        ELSE commits
          /\ call' = [call EXCEPT ![w] =
                        IF TransportErr(resp) # "nil" THEN Return(fr, TransportErr(resp))
                        ELSE [fr EXCEPT !.commitSHA = ShaOf(resp, Len(commits) + 1),
                                        !.pc = "ref"]]
  /\ UNCHANGED <<repo, blobs, trees, ref, issues, env, unit, run, reqs>>

\* CreateCommit whose error skips the file: the loop goes on with the next one
CreateCommit_ContinuesOnError(w) ==
  /\ call[w].pc = "commit"
  /\ \E resp \in PostCommitResponses(call[w], call[w].treeSHA, <<call[w].baseCommitSHA>>) :
       LET fr == Sent(call[w], "post_commit", <<call[w].treeSHA, call[w].baseCommitSHA>>, resp)
       IN /\ commits' = IF Is2xx(resp)
                        THEN Append(commits, [tree |-> call[w].treeSHA,
                                              parent |-> call[w].baseCommitSHA])
                        ELSE commits
          /\ call' = [call EXCEPT ![w] =
                        IF TransportErr(resp) # "nil" THEN NextFile(fr)
                        ELSE [fr EXCEPT !.commitSHA = ShaOf(resp, Len(commits) + 1),
                                        !.pc = "ref"]]
  /\ UNCHANGED <<repo, blobs, trees, ref, issues, env, unit, run, reqs>>

\* createCommit: parents = [parentSHA]
CreateCommit(w) ==
  /\ call[w].pc = "commit"
  /\ \E resp \in PostCommitResponses(call[w], call[w].treeSHA, <<call[w].baseCommitSHA>>) :
       LET fr == Sent(call[w], "post_commit", <<call[w].treeSHA, call[w].baseCommitSHA>>, resp)
       IN /\ commits' = IF Is2xx(resp)
                        THEN Append(commits, [tree |-> call[w].treeSHA,
                                              parent |-> call[w].baseCommitSHA])
                        ELSE commits
          /\ call' = [call EXCEPT ![w] =
                        IF TransportErr(resp) # "nil" THEN Return(fr, TransportErr(resp))
                        ELSE [fr EXCEPT !.commitSHA = ShaOf(resp, Len(commits) + 1),
                                        !.pc = "ref"]]
  /\ UNCHANGED <<repo, blobs, trees, ref, issues, env, unit, run, reqs>>

\* an update that is not forced
Force_Off == FALSE

\* the "force" of updateRef's request body
Force == TRUE

\* UpdateRef dropping the error of doPatch: a refused update counts as done
UpdateRef_IgnoreError(w) ==
  /\ call[w].pc = "ref"
  /\ \E resp \in PatchRefResponses(call[w], call[w].commitSHA, Force) :
       LET fr == Sent(call[w], "patch_ref", <<call[w].commitSHA>>, resp)
       IN /\ ref' = IF Is2xx(resp) THEN call[w].commitSHA ELSE ref
          /\ call' = [call EXCEPT ![w] = NextFile(fr)]
  /\ UNCHANGED <<repo, blobs, trees, commits, issues, env, unit, run, reqs>>

\* updateRef: a forced PATCH of refs/heads/main; a 2xx body with a "message"
\* is reported as an error
UpdateRef(w) ==
  /\ call[w].pc = "ref"
  /\ \E resp \in PatchRefResponses(call[w], call[w].commitSHA, Force) :
       LET fr == Sent(call[w], "patch_ref", <<call[w].commitSHA>>, resp)
       IN /\ ref' = IF Is2xx(resp) THEN call[w].commitSHA ELSE ref
          /\ call' = [call EXCEPT ![w] =
                        IF TransportErr(resp) # "nil" THEN Return(fr, TransportErr(resp))
                        ELSE IF resp = "msg" THEN Return(fr, "ApiMessage")
                        ELSE NextFile(fr)]
  /\ UNCHANGED <<repo, blobs, trees, commits, issues, env, unit, run, reqs>>

\* one step of CreateBranchAndCommit
Engine(w) ==
  \/ ProbeRef(w)
  \/ ProbeCommit(w)
  \/ InitBlob(w)
  \/ InitTree(w)
  \/ InitCommit(w)
  \/ InitRef(w)
  \/ CreateBlob(w)
  \/ BaseRef(w)
  \/ BaseCommit(w)
  \/ CreateTree(w)
  \/ CreateCommit(w)
  \/ UpdateRef(w)

----------------------------------------------------------------------------
(* The commit engine under a caller: CreateBranchAndCommit is called again  *)
(* and again, with any batch, on a repository that starts empty or          *)
(* auto-initialised.                                                        *)

Batches == SeqsUpTo(Files, MaxBatch)

\* initCmd.Run has not been started
NoRun == [pc |-> "off"]

\* no function is called on its own
NoUnit == [fn |-> "none", arg |-> <<>>, outs |-> <<>>]

InitEngine ==
  /\ repo = [exists |-> TRUE, owner |-> TokenLogin, name |-> RepoName]
  /\ \E autoInit \in BOOLEAN :
       /\ blobs = IF autoInit THEN AutoInitBlobs ELSE <<>>
       /\ trees = IF autoInit THEN AutoInitTrees ELSE <<>>
       /\ commits = IF autoInit THEN AutoInitCommits ELSE <<>>
       /\ ref = IF autoInit THEN 1 ELSE 0
  /\ issues = <<>>
  /\ env \in [username : Usernames]
  /\ call = [w \in Writers |-> IdleFrame]
  /\ run = NoRun
  /\ reqs = <<>>
  /\ unit = NoUnit

\* a call of CreateBranchAndCommit(repo, files, token)
Call(w) ==
  /\ call[w].pc \in {"idle", "returned"}
  /\ run.pc = "off"
  /\ \E files \in Batches :
       /\ Len(blobs) + Len(files) <= MaxBlobs
       /\ call' = [call EXCEPT ![w] = EntryFrame(RepoName, files)]
  /\ UNCHANGED <<platform, env, unit, run, reqs>>

NextCommit == Call("w1") \/ Engine("w1")

SpecCommit == InitEngine /\ [][NextCommit]_vars

----------------------------------------------------------------------------
(* Two processes calling CreateBranchAndCommit on the same repository: their *)
(* requests interleave in any order.                                        *)

\* blobs the platform stores before the two callers stop issuing calls
MaxConcurrentBlobs == 3

\* the files a writer's call in progress was handed
Pending(w) == IF call[w].pc \in {"idle", "returned"} THEN 0 ELSE Len(call[w].files)

\* the processes are configured with the account that holds the repository
InitConcurrent ==
  /\ InitEngine
  /\ env.username = TokenLogin

\* each process commits one file of its own
WriterFile(w) ==
  IF w = "w1" THEN [path |-> "README.md", content |-> "c1"]
  ELSE [path |-> "main.go", content |-> "c2"]

\* a call of CreateBranchAndCommit(repo, files, token) by one of the processes
CallConcurrent(w) ==
  /\ call[w].pc \in {"idle", "returned"}
  /\ run.pc = "off"
  /\ \E files \in {<<WriterFile(w)>>} :
       /\ \A v \in Writers \ {w} :
            Len(blobs) + Pending(v) + Len(files) <= MaxConcurrentBlobs
       /\ call' = [call EXCEPT ![w] = EntryFrame(RepoName, files)]
  /\ UNCHANGED <<platform, env, unit, run, reqs>>

NextConcurrent == \E w \in Writers : CallConcurrent(w) \/ Engine(w)

SpecConcurrent == InitConcurrent /\ [][NextConcurrent]_vars

----------------------------------------------------------------------------
(* The language-model client *)

\* most completion choices in one reply
MaxChoices == 2

\* Task{Title, Body, AcceptanceCriteria, Labels}
TaskA == [title |-> "ta", body |-> "ba", ac |-> <<>>, labels |-> <<>>]
TaskB == [title |-> "tb", body |-> "bb", ac |-> <<"x", "y">>, labels |-> <<"setup">>]
Tasks == {TaskA, TaskB}

TaskLists == SeqsUpTo(Tasks, MaxTasks)

\* the content of a completion choice: a JSON array of tasks, or (valid FALSE) a
\* text that is no such array
TaskContents ==
  [valid : {TRUE}, tasks : TaskLists] \cup {[valid |-> FALSE, tasks |-> <<>>]}

\* a reply of the chat-completion endpoint: transport "dial" is an error of
\* http.Client.Do, "read" an error reading the body; json: the body parses as a
\* ChatResponse; error: it holds an error object; choices: the choices' contents
Replies(contents) ==
  {[transport |-> "dial", json |-> FALSE, error |-> FALSE, choices |-> <<>>]}
  \cup [transport : {"ok", "read"}, json : {FALSE}, error : {FALSE}, choices : {<<>>}]
  \cup [transport : {"ok", "read"}, json : {TRUE}, error : BOOLEAN,
        choices : SeqsUpTo(contents, MaxChoices)]

\* AskForTasks that does not look at the reply's error object
AskForTasks_SkipsErrorObject(reply) ==
  IF reply.transport = "dial" THEN [err |-> "Transport", tasks |-> <<>>]
  ELSE IF ~reply.json THEN [err |-> "ParseResponse", tasks |-> <<>>]
  ELSE IF Len(reply.choices) = 0 THEN [err |-> "NoChoices", tasks |-> <<>>]
  ELSE IF ~reply.choices[1].valid THEN [err |-> "ParseTasks", tasks |-> <<>>]
  ELSE [err |-> "nil", tasks |-> reply.choices[1].tasks]

\* AskForTasks: [err, tasks]; the error of reading the body is dropped
AskForTasks(reply) ==
  IF reply.transport = "dial" THEN [err |-> "Transport", tasks |-> <<>>]
  ELSE IF ~reply.json THEN [err |-> "ParseResponse", tasks |-> <<>>]
  ELSE IF reply.error THEN [err |-> "OpenAIError", tasks |-> <<>>]
  ELSE IF Len(reply.choices) = 0 THEN [err |-> "NoChoices", tasks |-> <<>>]
  ELSE IF ~reply.choices[1].valid THEN [err |-> "ParseTasks", tasks |-> <<>>]
  ELSE [err |-> "nil", tasks |-> reply.choices[1].tasks]

\* GenerateReadme: [err, text]
GenerateReadme(reply) ==
  IF reply.transport = "dial" THEN [err |-> "Transport", text |-> ""]
  ELSE IF reply.transport = "read" THEN [err |-> "ReadBody", text |-> ""]
  ELSE IF ~reply.json THEN [err |-> "ParseResponse", text |-> ""]
  ELSE IF reply.error THEN [err |-> "OpenAIError", text |-> ""]
  ELSE IF Len(reply.choices) = 0 THEN [err |-> "NoChoices", text |-> ""]
  ELSE [err |-> "nil", text |-> reply.choices[1]]

----------------------------------------------------------------------------
(* cmd/init.go *)

ToLower(c) == IF c = "A" THEN "a" ELSE c

\* sanitizeRepoName without strings.ToLower
sanitizeRepoName_NoLower(name) ==
  [i \in 1..Len(name) |-> IF name[i] = " " THEN "-" ELSE name[i]]

\* strings.ReplaceAll(strings.ToLower(name), " ", "-")
sanitizeRepoName(name) ==
  [i \in 1..Len(name) |-> IF ToLower(name[i]) = " " THEN "-" ELSE ToLower(name[i])]

\* ProjectName taking the --name flag as typed
ProjectName_RawFlag(nameFlag, idea) ==
  IF nameFlag = <<>>
  THEN <<"a", "i", "-">> \o sanitizeRepoName(idea)
  ELSE nameFlag

\* projectName := sanitizeRepoName(repoName); if "" then "ai-" + sanitizeRepoName(idea)
ProjectName(nameFlag, idea) ==
  IF sanitizeRepoName(nameFlag) = <<>>
  THEN <<"a", "i", "-">> \o sanitizeRepoName(idea)
  ELSE sanitizeRepoName(nameFlag)

Ideas == {<<"A", " ", "a">>, <<"a">>}

NameFlags == {<<>>, <<"A", "-", "a">>}

RECURSIVE Bullets(_)
\* one "- <criterion>\n" per criterion
Bullets(ac) ==
  IF ac = <<>> THEN <<>> ELSE <<"- ", Head(ac), "\n">> \o Bullets(Tail(ac))

\* IssueBody writing the heading for every task
IssueBody_AlwaysHeading(task) ==
  <<task.body, "\n\n">> \o <<"### Acceptance Criteria:\n">> \o Bullets(task.ac)

\* CreateIssue's fullBody: fmt.Sprintf("%s\n\n%s", task.Body, acSection)
IssueBody(task) ==
  <<task.body, "\n\n">>
  \o (IF Len(task.ac) > 0 THEN <<"### Acceptance Criteria:\n">> \o Bullets(task.ac)
      ELSE <<>>)

\* one request of initCmd.Run
Request(step, owner, name, arg, res) ==
  [step |-> step, owner |-> owner, name |-> name, arg |-> arg, res |-> res]

\* log.Fatal: the process exits with status 1
Fatal(fr) == [fr EXCEPT !.pc = "exited", !.exit = 1]

\* the platform's answers to POST /user/repos (a name in use is refused) and to
\* POST /repos/{owner}/{repo}/issues
CreateRepoResponses(name) ==
  IF repo.exists /\ repo.owner = TokenLogin /\ repo.name = name THEN {"fail"}
  ELSE {"ok", "fail"}

CreateIssueResponses(owner, name) ==
  IF repo.exists /\ repo.owner = owner /\ repo.name = name THEN {"ok", "fail"}
  ELSE {"fail"}

\* godotenv.Load(), the environment, the project name
LoadEnv ==
  /\ run.pc = "start"
  /\ \E loaded \in BOOLEAN :
       run' = IF loaded
              THEN [run EXCEPT !.pc = "create_repo", !.envLoaded = TRUE,
                               !.owner = env.username,
                               !.projectName = ProjectName(run.nameFlag, run.idea)]
              ELSE Fatal([run EXCEPT !.envLoaded = FALSE])
  /\ UNCHANGED <<platform, env, unit, call, reqs>>

\* CreateRepo whose error is dropped: the run goes on in the repository of that name
CreateRepo_IgnoreErr ==
  /\ run.pc = "create_repo"
  /\ \E resp \in CreateRepoResponses(run.projectName) :
       /\ reqs' = Append(reqs, Request("create_repo", TokenLogin, run.projectName,
                                       <<>>, resp))
       /\ IF resp = "ok"
          THEN /\ repo' = [exists |-> TRUE, owner |-> TokenLogin, name |-> run.projectName]
               /\ blobs' = IF run.autoInit THEN AutoInitBlobs ELSE <<>>
               /\ trees' = IF run.autoInit THEN AutoInitTrees ELSE <<>>
               /\ commits' = IF run.autoInit THEN AutoInitCommits ELSE <<>>
               /\ ref' = IF run.autoInit THEN 1 ELSE 0
               /\ run' = [run EXCEPT !.pc = "ask_tasks"]
          ELSE /\ run' = [run EXCEPT !.pc = "ask_tasks"]
               /\ UNCHANGED <<repo, blobs, trees, commits, ref>>
  /\ UNCHANGED <<issues, env, unit, call>>

\* github.CreateRepo(projectName, token): any status but 201 is an error
CreateRepo ==
  /\ run.pc = "create_repo"
  /\ \E resp \in CreateRepoResponses(run.projectName) :
       /\ reqs' = Append(reqs, Request("create_repo", TokenLogin, run.projectName,
                                       <<>>, resp))
       /\ IF resp = "ok"
          THEN /\ repo' = [exists |-> TRUE, owner |-> TokenLogin, name |-> run.projectName]
               /\ blobs' = IF run.autoInit THEN AutoInitBlobs ELSE <<>>
               /\ trees' = IF run.autoInit THEN AutoInitTrees ELSE <<>>
               /\ commits' = IF run.autoInit THEN AutoInitCommits ELSE <<>>
               /\ ref' = IF run.autoInit THEN 1 ELSE 0
               /\ run' = [run EXCEPT !.pc = "ask_tasks"]
          ELSE /\ run' = Fatal(run)
               /\ UNCHANGED <<repo, blobs, trees, commits, ref>>
  /\ UNCHANGED <<issues, env, unit, call>>

\* AskTasks going on after an error, with no task
AskTasks_IgnoreErr ==
  /\ run.pc = "ask_tasks"
  /\ \E reply \in Replies(TaskContents) :
       LET r == AskForTasks(reply)
       IN /\ reqs' = Append(reqs, Request("tasks", "", <<>>, run.idea, r.err))
          /\ run' = [run EXCEPT !.tasks = r.tasks, !.i = 1,
                                !.pc = IF r.tasks = <<>> THEN "gen_readme" ELSE "issue"]
  /\ UNCHANGED <<platform, env, unit, call>>

\* openai.AskForTasks(finalPrompt, openaiKey), then the entry of the issue loop
AskTasks ==
  /\ run.pc = "ask_tasks"
  /\ \E reply \in Replies(TaskContents) :
       LET r == AskForTasks(reply)
       IN /\ reqs' = Append(reqs, Request("tasks", "", <<>>, run.idea, r.err))
          /\ run' = IF r.err # "nil" THEN Fatal(run)
                    ELSE [run EXCEPT !.tasks = r.tasks, !.i = 1,
                                     !.pc = IF r.tasks = <<>> THEN "gen_readme"
                                            ELSE "issue"]
  /\ UNCHANGED <<platform, env, unit, call>>

\* CreateIssue whose loop leaves one task early
CreateIssue_LeavesEarly ==
  /\ run.pc = "issue"
  /\ LET task == run.tasks[run.i]
         issue == [title |-> task.title, body |-> IssueBody(task), labels |-> task.labels]
     IN \E resp \in CreateIssueResponses(run.owner, run.projectName) :
          /\ reqs' = Append(reqs, Request("issue", run.owner, run.projectName, issue, resp))
          /\ issues' = IF resp = "ok" THEN Append(issues, issue) ELSE issues
          /\ run' = [run EXCEPT !.i = run.i + 1,
                                !.logged = IF resp = "ok" THEN @ ELSE @ + 1,
                                !.pc = IF run.i + 1 < Len(run.tasks) THEN "issue"
                                       ELSE "gen_readme"]
  /\ UNCHANGED <<repo, blobs, trees, commits, ref, env, unit, call>>

\* CreateIssue whose error ends the loop: the remaining tasks are not attempted
CreateIssue_BreakOnError ==
  /\ run.pc = "issue"
  /\ LET task == run.tasks[run.i]
         issue == [title |-> task.title, body |-> IssueBody(task), labels |-> task.labels]
     IN \E resp \in CreateIssueResponses(run.owner, run.projectName) :
          /\ reqs' = Append(reqs, Request("issue", run.owner, run.projectName, issue, resp))
          /\ issues' = IF resp = "ok" THEN Append(issues, issue) ELSE issues
          /\ run' = [run EXCEPT !.i = run.i + 1,
                                !.logged = IF resp = "ok" THEN @ ELSE @ + 1,
                                !.pc = IF resp = "ok" /\ run.i < Len(run.tasks) THEN "issue"
                                       ELSE "gen_readme"]
  /\ UNCHANGED <<repo, blobs, trees, commits, ref, env, unit, call>>

\* CreateIssue sending a refused request once more before it goes on
CreateIssue_RetryOnError ==
  /\ run.pc = "issue"
  /\ LET task == run.tasks[run.i]
         issue == [title |-> task.title, body |-> IssueBody(task), labels |-> task.labels]
         again == reqs[Len(reqs)].step = "issue" /\ reqs[Len(reqs)].res # "ok"
                  /\ run.logged % 2 = 1
     IN \E resp \in CreateIssueResponses(run.owner, run.projectName) :
          /\ reqs' = Append(reqs, Request("issue", run.owner, run.projectName, issue, resp))
          /\ issues' = IF resp = "ok" THEN Append(issues, issue) ELSE issues
          /\ run' = IF resp # "ok" /\ ~again
                    THEN [run EXCEPT !.logged = @ + 1]
                    ELSE [run EXCEPT !.i = run.i + 1,
                                     !.logged = IF resp = "ok" THEN @ ELSE @ + 1,
                                     !.pc = IF run.i < Len(run.tasks) THEN "issue"
                                            ELSE "gen_readme"]
  /\ UNCHANGED <<repo, blobs, trees, commits, ref, env, unit, call>>

\* one iteration of "for _, task := range tasks": github.CreateIssue; an error is
\* logged and the loop goes on
CreateIssue ==
  /\ run.pc = "issue"
  /\ LET task == run.tasks[run.i]
         issue == [title |-> task.title, body |-> IssueBody(task), labels |-> task.labels]
     IN \E resp \in CreateIssueResponses(run.owner, run.projectName) :
          /\ reqs' = Append(reqs, Request("issue", run.owner, run.projectName, issue, resp))
          /\ issues' = IF resp = "ok" THEN Append(issues, issue) ELSE issues
          /\ run' = [run EXCEPT !.i = run.i + 1,
                                !.logged = IF resp = "ok" THEN @ ELSE @ + 1,
                                !.pc = IF run.i < Len(run.tasks) THEN "issue"
                                       ELSE "gen_readme"]
  /\ UNCHANGED <<repo, blobs, trees, commits, ref, env, unit, call>>

\* openai.GenerateReadme(projectName, idea, stack, openaiKey)
GenReadme ==
  /\ run.pc = "gen_readme"
  /\ \E reply \in Replies(Contents) :
       LET r == GenerateReadme(reply)
       IN /\ reqs' = Append(reqs, Request("readme", "", run.projectName, run.idea, r.err))
          /\ run' = IF r.err # "nil" THEN Fatal(run)
                    ELSE [run EXCEPT !.readme = r.text, !.pc = "commit"]
  /\ UNCHANGED <<platform, env, unit, call>>

\* CommitReadme passing the --name flag as typed in place of projectName
CommitReadme_RepoNameFlag ==
  /\ run.pc = "commit"
  /\ call' = [call EXCEPT !["w1"] =
                EntryFrame(run.nameFlag,
                           <<[path |-> "README.md", content |-> run.readme]>>)]
  /\ run' = [run EXCEPT !.pc = "committing"]
  /\ UNCHANGED <<platform, env, unit, reqs>>

\* github.CreateBranchAndCommit(projectName, []github.File{file}, token) is entered
CommitReadme ==
  /\ run.pc = "commit"
  /\ call' = [call EXCEPT !["w1"] =
                EntryFrame(run.projectName,
                           <<[path |-> "README.md", content |-> run.readme]>>)]
  /\ run' = [run EXCEPT !.pc = "committing"]
  /\ UNCHANGED <<platform, env, unit, reqs>>

\* CommitReturn dropping the error of CreateBranchAndCommit
CommitReturn_IgnoreErr ==
  /\ run.pc = "committing"
  /\ call["w1"].pc = "returned"
  /\ run' = [run EXCEPT !.pc = "exited", !.exit = 0]
  /\ UNCHANGED <<platform, env, unit, call, reqs>>

\* CommitReturn with a timeout: a call that waits for a response is given up
CommitReturn_TimesOut ==
  /\ run.pc = "committing"
  /\ call["w1"].pc \in {"returned", "hung"}
  /\ run' = IF call["w1"].pc = "hung" \/ call["w1"].err # "nil" THEN Fatal(run)
            ELSE [run EXCEPT !.pc = "exited", !.exit = 0]
  /\ UNCHANGED <<platform, env, unit, call, reqs>>

\* CreateBranchAndCommit has returned: fatal on an error, else the run is complete
CommitReturn ==
  /\ run.pc = "committing"
  /\ call["w1"].pc = "returned"
  /\ run' = IF call["w1"].err # "nil" THEN Fatal(run)
            ELSE [run EXCEPT !.pc = "exited", !.exit = 0]
  /\ UNCHANGED <<platform, env, unit, call, reqs>>

\* the init command is started: the idea argument, the --name flag, the
\* environment, and the revision of Repo (auto_init: true in client.go, absent
\* before)
Init ==
  /\ repo = [exists |-> FALSE, owner |-> "", name |-> <<>>]
  /\ blobs = <<>>
  /\ trees = <<>>
  /\ commits = <<>>
  /\ ref = 0
  /\ issues = <<>>
  /\ env \in [username : Usernames]
  /\ call = [w \in Writers |-> IdleFrame]
  /\ \E idea \in Ideas, nameFlag \in NameFlags, autoInit \in BOOLEAN :
       run = [pc |-> "start", idea |-> idea, nameFlag |-> nameFlag,
              autoInit |-> autoInit, envLoaded |-> FALSE, owner |-> "",
              projectName |-> <<>>, tasks |-> <<>>, i |-> 0, logged |-> 0,
              readme |-> "", exit |-> 0, n |-> 1]
  /\ reqs = <<>>
  /\ unit = NoUnit

Next ==
  \/ LoadEnv
  \/ CreateRepo
  \/ AskTasks
  \/ CreateIssue
  \/ GenReadme
  \/ CommitReadme
  \/ Engine("w1")
  \/ CommitReturn

Spec == Init /\ [][Next]_vars

----------------------------------------------------------------------------
(* The init command with endpoints that may never answer.  The requests go  *)
(* through http.DefaultClient, which has no timeout, and carry no context:  *)
(* a request without a response blocks the goroutine for good.             *)

\* the step of initCmd.Run that sends a request at a pc
StepAt(pc) ==
  CASE pc = "create_repo" -> "create_repo"
    [] pc = "ask_tasks" -> "tasks"
    [] pc = "issue" -> "issue"
    [] pc = "gen_readme" -> "readme"

\* the request of the commit engine sent at a pc
OpAt(pc) ==
  CASE pc \in {"probe_ref", "base_ref"} -> "get_ref"
    [] pc \in {"probe_commit", "base_commit"} -> "get_commit"
    [] pc \in {"init_blob", "blob"} -> "post_blob"
    [] pc \in {"init_tree", "tree"} -> "post_tree"
    [] pc \in {"init_commit", "commit"} -> "post_commit"
    [] pc = "init_ref" -> "post_ref"
    [] pc = "ref" -> "patch_ref"

RequestSteps == {"create_repo", "ask_tasks", "issue", "gen_readme"}

EngineSteps ==
  {"probe_ref", "probe_commit", "init_blob", "init_tree", "init_commit", "init_ref",
   "blob", "base_ref", "base_commit", "tree", "commit", "ref"}

\* a request of initCmd.Run is sent and no response ever comes
Hang ==
  /\ run.pc \in RequestSteps
  /\ reqs' = Append(reqs, Request(StepAt(run.pc), run.owner, run.projectName,
                                  <<>>, "pending"))
  /\ run' = [run EXCEPT !.pc = "hung"]
  /\ UNCHANGED <<platform, env, unit, call>>

\* a request of CreateBranchAndCommit is sent and no response ever comes
HangCall(w) ==
  /\ call[w].pc \in EngineSteps
  /\ call' = [call EXCEPT ![w] =
                [Sent(call[w], OpAt(call[w].pc), <<>>, "pending") EXCEPT !.pc = "hung"]]
  /\ UNCHANGED <<platform, env, unit, run, reqs>>

NextLive ==
  \/ Next
  \/ Hang
  \/ HangCall("w1")

\* the process runs on whenever the response it waits for has come
SpecLive == Init /\ [][NextLive]_vars /\ WF_vars(Next)

----------------------------------------------------------------------------
(* The init command run again: the same arguments, flags and environment,  *)
(* against the platform as the run before left it.                         *)

\* runs of the command, one after the other
MaxRuns == 2

\* the process has exited and the command is started again
Restart ==
  /\ run.pc = "exited"
  /\ run.n < MaxRuns
  /\ run' = [pc |-> "start", idea |-> run.idea, nameFlag |-> run.nameFlag,
             autoInit |-> run.autoInit, envLoaded |-> FALSE, owner |-> "",
             projectName |-> <<>>, tasks |-> <<>>, i |-> 0, logged |-> 0,
             readme |-> "", exit |-> 0, n |-> run.n + 1]
  /\ reqs' = <<>>
  /\ call' = [call EXCEPT !["w1"] = IdleFrame]
  /\ UNCHANGED <<platform, env, unit>>

NextAgain == Next \/ Restart

SpecAgain == Init /\ [][NextAgain]_vars

----------------------------------------------------------------------------
(* HTTP responses and the errors made from them (internal/github)          *)

\* longest response body, in bytes
MaxBody == 2

\* the bytes a response body is made of
BodyBytes == {"e", ":"}

Bodies == SeqsUpTo(BodyBytes, MaxBody)

\* status codes http.Client.Do hands to its caller
Statuses == {101, 200, 201, 204, 299, 300, 404, 422, 500}

\* what a request comes to: net "dial" is an error of http.Client.Do (no
\* response), "read" an error of io.ReadAll after body was received, "ok" a
\* response read in full
HttpOutcomes ==
  {[net |-> "dial", status |-> 0, body |-> <<>>]}
  \cup [net : {"ok", "read"}, status : Statuses, body : Bodies]

\* a text is a sequence of pieces; a byte of a body is a piece of its own
DigitChars == <<"0", "1", "2", "3", "4", "5", "6", "7", "8", "9">>

\* %d of a three-digit status code
Decimal(n) ==
  <<DigitChars[(n \div 100) + 1], DigitChars[((n \div 10) % 10) + 1],
    DigitChars[(n % 10) + 1]>>

\* strings.Contains(text, part)
Contains(text, part) ==
  \E i \in 0..(Len(text) - Len(part)) :
    \A j \in 1..Len(part) : text[i + j] = part[j]

NilError == [isNil |-> TRUE, text |-> <<>>]

\* the error of the HTTP client or of the body reader
NetError(net) == [isNil |-> FALSE, text |-> <<net>>]

\* fmt.Errorf(format, ...): the text after formatting
Errorf(text) == [isNil |-> FALSE, text |-> text]

\* a helper whose error for a status >= 300 leaves the body out
doGet_DropsBody(resp) ==
  IF resp.net # "ok" THEN [body |-> <<>>, err |-> NetError(resp.net)]
  ELSE IF resp.status >= 300
  THEN [body |-> resp.body,
        err |-> Errorf(<<"GitHub API error (status ">> \o Decimal(resp.status)
                       \o <<")">>)]
  ELSE [body |-> resp.body, err |-> NilError]

\* doGet(url, token): ([]byte, error)
doGet(resp) ==
  IF resp.net # "ok" THEN [body |-> <<>>, err |-> NetError(resp.net)]
  ELSE IF resp.status >= 300
  THEN [body |-> resp.body,
        err |-> Errorf(<<"GitHub API error (status ">> \o Decimal(resp.status)
                       \o <<"): ">> \o resp.body)]
  ELSE [body |-> resp.body, err |-> NilError]

\* doPost(url, data, token): ([]byte, error)
doPost(resp) ==
  IF resp.net # "ok" THEN [body |-> <<>>, err |-> NetError(resp.net)]
  ELSE IF resp.status >= 300
  THEN [body |-> resp.body,
        err |-> Errorf(<<"GitHub API error (status ">> \o Decimal(resp.status)
                       \o <<"): ">> \o resp.body)]
  ELSE [body |-> resp.body, err |-> NilError]

\* doPatch(url, data, token): ([]byte, error)
doPatch(resp) ==
  IF resp.net # "ok" THEN [body |-> <<>>, err |-> NetError(resp.net)]
  ELSE IF resp.status >= 300
  THEN [body |-> resp.body,
        err |-> Errorf(<<"GitHub API error (status ">> \o Decimal(resp.status)
                       \o <<"): ">> \o resp.body)]
  ELSE [body |-> resp.body, err |-> NilError]

\* the error CreateRepo returns: any status but 201 is one; the error of
\* reading the body is dropped and what was read is formatted
CreateRepoError(resp) ==
  IF resp.net = "dial" THEN NetError(resp.net)
  ELSE IF resp.status # 201
  THEN Errorf(<<"failed to create repo: ">> \o resp.body)
  ELSE NilError

\* the error CreateIssue returns
CreateIssueError(resp) ==
  IF resp.net = "dial" THEN NetError(resp.net)
  ELSE IF resp.status >= 300
  THEN Errorf(<<"issue creation failed: ">> \o resp.body)
  ELSE NilError

----------------------------------------------------------------------------
(* Functions called on their own, each on every input of a bounded domain  *)

\* the function is called on the frame's argument: its result is recorded
Apply(fn, result) ==
  /\ unit.fn = fn
  /\ unit.outs = <<>>
  /\ unit' = [unit EXCEPT !.outs = <<result>>]
  /\ UNCHANGED <<platform, env, call, run, reqs>>

CallDoGet == Apply("doGet", doGet(unit.arg))

CallDoPost == Apply("doPost", doPost(unit.arg))

CallDoPatch == Apply("doPatch", doPatch(unit.arg))

CallCreateRepo == Apply("CreateRepo", [err |-> CreateRepoError(unit.arg)])

CallCreateIssue == Apply("CreateIssue", [err |-> CreateIssueError(unit.arg)])

CallAskForTasks == Apply("AskForTasks", AskForTasks(unit.arg))

\* longest name handed to sanitizeRepoName
MaxName == 3

\* the characters of a name: a letter in both cases, the space, the hyphen
NameChars == {"A", "a", " ", "-"}

Names == SeqsUpTo(NameChars, MaxName)

\* sanitizeRepoName(name), and then sanitizeRepoName of its result
CallSanitizeRepoName ==
  /\ unit.fn = "sanitizeRepoName"
  /\ Len(unit.outs) < 2
  /\ unit' = [unit EXCEPT !.outs =
                Append(@, sanitizeRepoName(IF @ = <<>> THEN unit.arg ELSE @[Len(@)]))]
  /\ UNCHANGED <<platform, env, call, run, reqs>>

\* longest acceptance-criteria sequence of a task handed to CreateIssue
MaxCriteria == 3

Criteria == {"x", "y"}

\* the tasks whose issue body is rendered
RenderedTasks ==
  [title : {"ta"}, body : {"ba", ""}, ac : SeqsUpTo(Criteria, MaxCriteria),
   labels : {<<>>}]

\* CreateIssue up to fullBody
CallIssueBody == Apply("IssueBody", [body |-> IssueBody(unit.arg)])

HttpFunctions == {"doGet", "doPost", "doPatch", "CreateRepo", "CreateIssue"}

InitUnit ==
  /\ repo = [exists |-> FALSE, owner |-> "", name |-> <<>>]
  /\ blobs = <<>>
  /\ trees = <<>>
  /\ commits = <<>>
  /\ ref = 0
  /\ issues = <<>>
  /\ env = [username |-> TokenLogin]
  /\ call = [w \in Writers |-> IdleFrame]
  /\ run = NoRun
  /\ reqs = <<>>
  /\ \/ unit \in [fn : HttpFunctions, arg : HttpOutcomes, outs : {<<>>}]
     \/ unit \in [fn : {"AskForTasks"}, arg : Replies(TaskContents), outs : {<<>>}]
     \/ unit \in [fn : {"sanitizeRepoName"}, arg : Names, outs : {<<>>}]
     \/ unit \in [fn : {"IssueBody"}, arg : RenderedTasks, outs : {<<>>}]

NextUnit ==
  \/ CallDoGet
  \/ CallDoPost
  \/ CallDoPatch
  \/ CallCreateRepo
  \/ CallCreateIssue
  \/ CallAskForTasks
  \/ CallSanitizeRepoName
  \/ CallIssueBody

SpecUnit == InitUnit /\ [][NextUnit]_vars

----------------------------------------------------------------------------
(* Properties of CreateBranchAndCommit with a single writer (SpecCommit) *)

\* every request of the call was answered 2xx with the documented body; the one
\* exception is the probe of a branch without a commit, which the platform
\* answers with "Git Repository is empty"
Succeeded(fr) ==
  \A i \in 1..Len(fr.sent) :
    \/ fr.sent[i].res = "ok"
    \/ fr.sent[i].res = "empty" /\ i = 1

\* the i-th commit, oldest first, of the k newest commits of the branch
NewCommit(k, i) == History(ref)[k - i + 1]

\* C1: a call with exactly one file on an empty repository, every remote call
\* succeeding, leaves main at a history of exactly one commit, which has no
\* parent and whose tree holds exactly the one file
C1_BootstrapSingleCommit ==
  LET fr == call["w1"]
  IN (fr.pc = "returned" /\ Succeeded(fr) /\ fr.tip0 = 0 /\ Len(fr.files) = 1)
     => /\ ref # 0
        /\ History(ref) = <<ref>>
        /\ commits[ref].parent = 0
        /\ Entries(commits[ref].tree) = {fr.files[1].path}
        /\ ContentAt(commits[ref].tree, fr.files[1].path) = fr.files[1].content

C1_Witness ==
  LET fr == call["w1"]
  IN /\ fr.pc = "returned" /\ Succeeded(fr) /\ fr.tip0 = 0 /\ Len(fr.files) = 1
     /\ fr.err = "nil" /\ ref # 0

\* C2: a call with one file on a repository whose main has N >= 1 commits, every
\* remote call succeeding, leaves main with N+1 commits, the new tip's parent
\* being the tip before the call
C2_AppendOneCommit ==
  LET fr == call["w1"]
  IN (fr.pc = "returned" /\ Succeeded(fr) /\ fr.tip0 # 0 /\ Len(fr.files) = 1)
     => /\ Len(History(ref)) = Len(History(fr.tip0)) + 1
        /\ commits[ref].parent = fr.tip0

C2_Witness ==
  LET fr == call["w1"]
  IN /\ fr.pc = "returned" /\ Succeeded(fr) /\ fr.tip0 # 0 /\ Len(fr.files) = 1
     /\ Len(History(fr.tip0)) = 2 /\ Len(History(ref)) = 3

\* C3: a call with k >= 2 files on an empty repository, every remote call
\* succeeding, returns with k commits on main, one per file of the batch
C3_BootstrapThenLoop ==
  LET fr == call["w1"]
  IN (fr.pc = "returned" /\ Succeeded(fr) /\ fr.tip0 = 0 /\ Len(fr.files) >= 2)
     => Len(History(ref)) = Len(fr.files)

----------------------------------------------------------------------------
(* Properties of the init command (Spec) *)

\* the requests of the run's CreateBranchAndCommit call
GitReqs == call["w1"].sent

StepsSoFar == [i \in 1..Len(reqs) |-> reqs[i].step]

\* the order of a complete run's requests before the README commit
ExpectedSteps(tasks) ==
  <<"create_repo", "tasks">> \o [i \in 1..Len(tasks) |-> "issue"] \o <<"readme">>

IsPrefix(s, t) == Len(s) <= Len(t) /\ \A i \in 1..Len(s) : s[i] = t[i]

\* a request of initCmd.Run that returned an error
Failed(r) == r.res \notin {"ok", "nil"}

IsIssue(r) == r.step = "issue"

IssueReqs == SelectSeq(reqs, IsIssue)

\* CreateBranchAndCommit has returned an error to initCmd.Run
CommitFailed == call["w1"].pc = "returned" /\ call["w1"].err # "nil"

\* C5: the remote steps of a run occur in the order create repository, task
\* breakdown, one issue creation per returned task, README generation, README
\* commit, and in no other; a step is issued only when every earlier one has
\* returned
C5_StepOrder ==
  /\ IsPrefix(StepsSoFar, ExpectedSteps(run.tasks))
  /\ \A i \in 1..Len(reqs) : i < Len(reqs) => ~Failed(reqs[i]) \/ IsIssue(reqs[i])
  /\ GitReqs # <<>> =>
       /\ StepsSoFar = ExpectedSteps(run.tasks)
       /\ ~Failed(reqs[Len(reqs)])
  /\ (run.pc = "exited" /\ run.exit = 0) =>
       /\ StepsSoFar = ExpectedSteps(run.tasks)
       /\ GitReqs # <<>>
       /\ call["w1"].pc = "returned"

C5_Witness ==
  /\ run.pc = "exited" /\ run.exit = 0
  /\ Len(run.tasks) = 2
  /\ Len(GitReqs) >= 7

\* a fatal step has failed: repository creation, task retrieval, README
\* generation, or the README commit
FatalStepFailed ==
  \/ \E i \in 1..Len(reqs) :
       reqs[i].step \in {"create_repo", "tasks", "readme"} /\ Failed(reqs[i])
  \/ CommitFailed

\* C6: once repository creation, task retrieval, README generation or the README
\* commit has failed, no further request is issued and nothing changes on the
\* platform; when repository creation or task retrieval failed, no issue was or
\* is ever filed
C6_FatalAborts ==
  /\ [][FatalStepFailed => (reqs' = reqs /\ call' = call /\ platform' = platform)]_vars
  /\ [](\A i \in 1..Len(reqs) :
          (reqs[i].step \in {"create_repo", "tasks"} /\ Failed(reqs[i]))
          => (IssueReqs = <<>> /\ issues = <<>>))

C6_Witness ==
  /\ run.pc = "exited"
  /\ CommitFailed
  /\ Len(GitReqs) >= 3
  /\ Len(reqs) >= 4

\* C7: for every task list and every pattern of issue-creation failures, the
\* issue-creation attempts are exactly one per task, in the order the tasks were
\* returned; after the last one the run goes on to README generation
C7_OneAttemptPerTask ==
  /\ Len(IssueReqs) <= Len(run.tasks)
  /\ \A i \in 1..Len(IssueReqs) :
       /\ IssueReqs[i].arg.title = run.tasks[i].title
       /\ IssueReqs[i].arg.body = IssueBody(run.tasks[i])
       /\ IssueReqs[i].arg.labels = run.tasks[i].labels
  /\ (\E i \in 1..Len(reqs) : reqs[i].step = "readme") => Len(IssueReqs) = Len(run.tasks)
  /\ (run.pc = "exited" /\ \E i \in 1..Len(reqs) : reqs[i].step = "tasks" /\ ~Failed(reqs[i]))
     => \E i \in 1..Len(reqs) : reqs[i].step = "readme"

C7_Witness ==
  /\ run.pc = "exited"
  /\ Len(run.tasks) = 2
  /\ Len(IssueReqs) = 2
  /\ Failed(IssueReqs[1])
  /\ ~Failed(IssueReqs[2])
  /\ run.tasks[1] # run.tasks[2]

\* C8: the exit status of a run is non-zero exactly when a fatal step failed:
\* the configuration load, repository creation, task retrieval, README
\* generation or the README commit; failed issue creations do not count
C8_ExitStatus ==
  run.pc = "exited" => (run.exit # 0 <=> (~run.envLoaded \/ FatalStepFailed))

C8_Witness ==
  /\ run.pc = "exited"
  /\ run.exit = 0
  /\ run.logged = 2

\* the repository the run's create-repository request created
Created == [owner |-> repo.owner, name |-> repo.name]

Target(r) == [owner |-> r.owner, name |-> r.name]

\* C9: every issue-creation request and every README commit request targets the
\* repository, owner and name, that the create-repository request created
C9_SameRepository ==
  /\ \A i \in 1..Len(IssueReqs) : Target(IssueReqs[i]) = Created
  /\ \A i \in 1..Len(GitReqs) : Target(GitReqs[i]) = Created

\* C9 as amended: every issue-creation request and every README commit request
\* targets the owner named by GITHUB_USERNAME and the repository name sent in
\* the create-repository request; that is the created repository when
\* GITHUB_USERNAME is the account of the token
C9_TargetsConfiguredOwner ==
  /\ \A i \in 1..Len(IssueReqs) :
       Target(IssueReqs[i]) = [owner |-> env.username, name |-> reqs[1].name]
  /\ \A i \in 1..Len(GitReqs) :
       Target(GitReqs[i]) = [owner |-> env.username, name |-> reqs[1].name]
  /\ env.username = TokenLogin => C9_SameRepository

C9_Witness ==
  /\ run.pc = "exited"
  /\ env.username # TokenLogin
  /\ Len(IssueReqs) = 2
  /\ Len(GitReqs) >= 1

\* C10: when the README commit succeeds, the tip tree of main maps README.md to
\* exactly the text README generation returned, on a repository that had no
\* commit as on one that had the commit of the auto-initialisation
C10_ReadmeAtTip ==
  (run.pc = "exited" /\ run.exit = 0)
  => /\ ref # 0
     /\ ContentAt(commits[ref].tree, "README.md") = run.readme
     /\ \E i \in 1..Len(reqs) : reqs[i].step = "readme" /\ ~Failed(reqs[i])

\* the same on the bootstrap path: the README is the branch's first commit
C10_BootstrapReached ==
  /\ run.pc = "exited" /\ run.exit = 0
  /\ ~run.autoInit
  /\ History(ref) = <<ref>>
  /\ ContentAt(commits[ref].tree, "README.md") = run.readme

C10_Witness ==
  /\ run.pc = "exited" /\ run.exit = 0
  /\ run.autoInit
  /\ Len(History(ref)) = 2
  /\ ContentAt(commits[commits[ref].parent].tree, "README.md") = AutoReadme
  /\ run.readme = "c2"

----------------------------------------------------------------------------
(* Properties of single functions (SpecUnit) *)

\* the frame holds a finished call of fn
Called(fn) == unit.fn = fn /\ unit.outs # <<>>

\* the error a finished call returned
UnitErr == unit.outs[1].err

\* C11: for doGet, doPost, doPatch and for repository and issue creation, a
\* response with a non-2xx status yields an error whose text contains the
\* response body unchanged, and a 2xx response yields no error
C11_Non2xxIsError ==
  \A fn \in HttpFunctions :
    (Called(fn) /\ unit.arg.net = "ok")
    => IF unit.arg.status \in 200..299
       THEN UnitErr.isNil
       ELSE ~UnitErr.isNil /\ Contains(UnitErr.text, unit.arg.body)

\* C11 as amended: for doGet, doPost, doPatch and issue creation a response with
\* a status of 300 or more yields an error whose text contains the response body
\* unchanged and a status below 300 yields no error; for repository creation
\* every status other than 201 yields such an error and 201 yields none
C11_StatusErrors ==
  \A fn \in HttpFunctions :
    (Called(fn) /\ unit.arg.net = "ok")
    => LET accepted == IF fn = "CreateRepo" THEN unit.arg.status = 201
                       ELSE unit.arg.status < 300
       IN IF accepted THEN UnitErr.isNil
          ELSE ~UnitErr.isNil /\ Contains(UnitErr.text, unit.arg.body)

C11_Witness ==
  /\ Called("CreateRepo")
  /\ unit.arg.net = "ok"
  /\ unit.arg.status = 200
  /\ unit.arg.body = <<":", "e">>
  /\ ~UnitErr.isNil
  /\ UnitErr.text = <<"failed to create repo: ", ":", "e">>

----------------------------------------------------------------------------
(* Properties of the init command run again (SpecAgain) *)

\* the account of the token holds a repository of the name this run computes,
\* and it is not this run that created it
NameInUse ==
  /\ repo.exists
  /\ repo.owner = TokenLogin
  /\ repo.name = ProjectName(run.nameFlag, run.idea)
  /\ \A i \in 1..Len(reqs) : reqs[i].step = "create_repo" => Failed(reqs[i])

\* C12: when the command is run again with the same repository name and the
\* repository of the run before exists, the create-repository request of the
\* later run fails and the run exits with status 1 at once: it files no issue,
\* sends no request of the commit engine and changes nothing on the platform
C12_SecondRunAborts ==
  [][(run.n >= 2 /\ NameInUse)
     => /\ platform' = platform
        /\ call' = call
        /\ IssueReqs' = <<>>
        /\ run.pc = "create_repo"
           => /\ run'.pc = "exited" /\ run'.exit = 1
              /\ Len(reqs') = 1 /\ reqs'[1].step = "create_repo" /\ Failed(reqs'[1])]_vars

C12_Witness ==
  /\ run.n = 2
  /\ run.pc = "exited" /\ run.exit = 1
  /\ Len(reqs) = 1 /\ reqs[1].step = "create_repo" /\ Failed(reqs[1])
  /\ NameInUse
  /\ Len(issues) = 2
  /\ Len(History(ref)) = 2

\* C13: AskForTasks returns a task list, the one the first choice's text holds,
\* only when the call succeeded, the reply carries no error object, at least
\* one choice is present and the first choice's text parses as a task array;
\* a failed call, an error object, zero choices and an unparsable text each
\* yield their own error, and every error comes with no task
C13_TasksOnlyOnSuccess ==
  Called("AskForTasks")
  => LET reply == unit.arg
         r == unit.outs[1]
         sent == reply.transport # "dial"
         parsed == sent /\ reply.json
         clean == parsed /\ ~reply.error
         chosen == clean /\ Len(reply.choices) >= 1
     IN /\ r.err = "nil" => (chosen /\ reply.choices[1].valid
                             /\ r.tasks = reply.choices[1].tasks)
        /\ r.err # "nil" => r.tasks = <<>>
        /\ ~sent => r.err = "Transport"
        /\ (parsed /\ reply.error) => r.err = "OpenAIError"
        /\ (clean /\ Len(reply.choices) = 0) => r.err = "NoChoices"
        /\ (chosen /\ ~reply.choices[1].valid) => r.err = "ParseTasks"
        /\ (chosen /\ reply.choices[1].valid) => r.err = "nil"

C13_Witness ==
  /\ Called("AskForTasks")
  /\ unit.arg.transport = "ok" /\ unit.arg.json /\ ~unit.arg.error
  /\ Len(unit.arg.choices) = 2
  /\ unit.arg.choices[1] = [valid |-> TRUE, tasks |-> <<TaskB, TaskA>>]
  /\ ~unit.arg.choices[2].valid
  /\ unit.outs[1] = [err |-> "nil", tasks |-> <<TaskB, TaskA>>]

----------------------------------------------------------------------------
(* The repository name of a run (Spec) *)

\* the name as the claim words it; slug lower-cases and puts a hyphen for a space
Slug(text) ==
  [i \in 1..Len(text) |->
     CASE text[i] = "A" -> "a"
       [] text[i] = " " -> "-"
       [] OTHER -> text[i]]

\* the name the run sent in its create-repository request
NameUsed == reqs[1].name

\* C14: the repository name a run uses is the value of the --name flag when the
\* flag is non-empty, and otherwise "ai-" followed by slug(idea)
C14_NameIsFlagValue ==
  reqs # <<>>
  => NameUsed = IF run.nameFlag # <<>> THEN run.nameFlag
                ELSE <<"a", "i", "-">> \o Slug(run.idea)

\* C14 as amended: the repository name a run uses is slug(flag) when the --name
\* flag is non-empty, and otherwise "ai-" followed by slug(idea); every later
\* request of the run names the same repository
C14_NameIsSluggedFlag ==
  reqs # <<>>
  => /\ NameUsed = IF run.nameFlag # <<>> THEN Slug(run.nameFlag)
                   ELSE <<"a", "i", "-">> \o Slug(run.idea)
     /\ \A i \in 1..Len(IssueReqs) : IssueReqs[i].name = NameUsed
     /\ \A i \in 1..Len(GitReqs) : GitReqs[i].name = NameUsed

C14_Witness ==
  /\ run.pc = "exited" /\ run.exit = 0
  /\ run.nameFlag = <<"A", "-", "a">>
  /\ NameUsed = <<"a", "-", "a">>
  /\ repo.name = <<"a", "-", "a">>
  /\ Len(GitReqs) >= 1

\* without the flag: the name comes from the idea
C14_IdeaNameReached ==
  /\ run.pc = "exited" /\ run.exit = 0
  /\ run.nameFlag = <<>>
  /\ run.idea = <<"A", " ", "a">>
  /\ repo.name = <<"a", "i", "-", "a", "-", "a">>

----------------------------------------------------------------------------
(* Properties of sanitizeRepoName and of the issue body (SpecUnit) *)

UpperCase == {"A"}

\* C15: sanitizeRepoName is idempotent, slug(slug(x)) = slug(x) for every x,
\* and its result holds no upper-case letter and no space
C15_SlugIdempotent ==
  unit.fn = "sanitizeRepoName"
  => /\ \A k \in 1..Len(unit.outs) :
          \A i \in 1..Len(unit.outs[k]) : unit.outs[k][i] \notin UpperCase \cup {" "}
     /\ Len(unit.outs) = 2 => unit.outs[2] = unit.outs[1]

C15_Witness ==
  /\ unit.fn = "sanitizeRepoName"
  /\ unit.arg = <<"A", " ", "a">>
  /\ unit.outs = <<(<<"a", "-", "a">>), (<<"a", "-", "a">>)>>

Heading == "### Acceptance Criteria:\n"

\* C16: the rendered issue body is task.body, a blank line and then, only when
\* the acceptance criteria are not empty, the heading and one "- <criterion>"
\* line per criterion in input order; for no criteria the body ends after the
\* blank line and holds no heading
C16_IssueBodyLayout ==
  Called("IssueBody")
  => LET out == unit.outs[1].body
         ac == unit.arg.ac
         n == Len(ac)
     IN /\ Len(out) = IF n = 0 THEN 2 ELSE 3 + 3 * n
        /\ out[1] = unit.arg.body
        /\ out[2] = "\n\n"
        /\ n = 0 => \A i \in 1..Len(out) : out[i] # Heading
        /\ n > 0 => /\ out[3] = Heading
                    /\ \A i \in 1..n : /\ out[3 * i + 1] = "- "
                                        /\ out[3 * i + 2] = ac[i]
                                        /\ out[3 * i + 3] = "\n"

C16_Witness ==
  /\ Called("IssueBody")
  /\ unit.arg.ac = <<"y", "x">>
  /\ unit.outs[1].body = <<"ba", "\n\n", Heading, "- ", "y", "\n", "- ", "x", "\n">>

----------------------------------------------------------------------------
(* Properties of two concurrent writers (SpecConcurrent) *)

\* the commits a writer's call moved main to, in order
Published(w) ==
  LET IsPublish(r) == r.op \in {"post_ref", "patch_ref"} /\ r.res = "ok"
      done == SelectSeq(call[w].sent, IsPublish)
  IN [i \in 1..Len(done) |-> done[i].shas[1]]

OnMain(c) == \E i \in 1..Len(History(ref)) : History(ref)[i] = c

\* C17: the ref update is a forced write with no compare on the prior tip: the
\* request names the new commit alone, and the platform takes it from a writer
\* whatever commit main has come to name since the writer read it
C17_ForcedUpdate ==
  \A w \in Writers :
    /\ \A i \in 1..Len(call[w].sent) :
         call[w].sent[i].op = "patch_ref" => Len(call[w].sent[i].shas) = 1
    /\ (call[w].pc = "ref" /\ call[w].commitSHA \in 1..Len(commits) /\ ref # 0)
       => "ok" \in PatchRefResponses(call[w], call[w].commitSHA, Force)

\* the lost update: on a repository that had history both calls have returned
\* nil, every request answered as documented, and the commit one of them
\* published is not in the history of main, whose tip tree lacks its file
C17_Witness ==
  /\ \A w \in Writers :
       /\ call[w].pc = "returned" /\ call[w].err = "nil"
       /\ Succeeded(call[w])
       /\ call[w].tip0 # 0
       /\ Len(Published(w)) = 1
  /\ ~OnMain(Published("w1")[1])
  /\ OnMain(Published("w2")[1])
  /\ WriterFile("w1").path \notin Entries(commits[ref].tree)

\* the repository was created with auto_init: its first commit is the platform's
AutoInitialised == blobs # <<>> /\ blobs[1] = AutoReadme

\* the parent-less commits that calls of CreateBranchAndCommit have created
CreatedRoots ==
  {c \in 1..Len(commits) : commits[c].parent = 0 /\ ~(c = 1 /\ AutoInitialised)}

\* the oldest commit of a history
Root(c) == History(c)[Len(History(c))]

\* C18: over any sequence or interleaving of calls on one repository at most
\* one parent-less commit is ever created, and none once main has a commit
C18_OneRootEverCreated ==
  /\ [](Cardinality(CreatedRoots) <= 1)
  /\ [][ref # 0 => CreatedRoots' = CreatedRoots]_vars

\* C18 as amended: a parent-less commit is created only by a call whose probe
\* found main without a commit; the reference is created at most once, so once
\* main has a commit its root never changes, and a bootstrap that reaches its
\* create-reference request after that returns an error and leaves main alone
C18_BootstrapPublishesOnce ==
  [][/\ \A w \in Writers :
          /\ (call[w].pc = "init_commit" /\ call'[w] # call[w])
             => /\ call[w].sent[1].op = "get_ref"
                /\ call[w].sent[1].res = "empty"
          /\ (call[w].pc = "init_ref" /\ call'[w] # call[w] /\ ref # 0)
             => /\ ref' = ref
                /\ call'[w].pc = "returned"
                /\ call'[w].err # "nil"
     /\ CreatedRoots' # CreatedRoots
        => \E w \in Writers : call[w].pc = "init_commit" /\ call'[w] # call[w]
     /\ ref # 0 => (ref' # 0 /\ Root(ref') = Root(ref))]_vars

\* two bootstraps: both processes created a parent-less commit; the first is
\* main's root, the other call returned the error of its create-reference request
C18_Witness ==
  /\ ~AutoInitialised
  /\ Cardinality(CreatedRoots) = 2
  /\ ref # 0
  /\ Root(ref) = 1
  /\ call["w1"].pc = "returned" /\ call["w1"].err = "nil" /\ Published("w1") = <<1>>
  /\ call["w2"].pc = "returned" /\ call["w2"].err # "nil"
  /\ Len(call["w2"].sent) = 5
  /\ call["w2"].sent[5].op = "post_ref" /\ call["w2"].sent[5].shas = <<2>>

----------------------------------------------------------------------------
(* Properties of the loop and of failures, single writer (SpecCommit) *)

\* C19: with a single writer the parent and the base tree used for a file are
\* read from the branch after the ref update of the file before and are not
\* reused: while the file's tree, commit and ref update are made they are the
\* tip of main and its tree, so the commit the ref update publishes has the
\* tip of that moment as parent and its tree is the tip's tree with the file
C19_FreshBase ==
  LET fr == call["w1"]
  IN /\ fr.pc \in {"tree", "commit", "ref"}
        => /\ fr.baseCommitSHA = ref
           /\ fr.baseTreeSHA = commits[ref].tree
     /\ (fr.pc = "ref" /\ fr.commitSHA # 0)
        => /\ commits[fr.commitSHA].parent = ref
           /\ \A q \in Paths \ {fr.files[fr.idx].path} :
                trees[commits[fr.commitSHA].tree][q] = trees[commits[ref].tree][q]
           /\ ContentAt(commits[fr.commitSHA].tree, fr.files[fr.idx].path)
                = fr.files[fr.idx].content

\* the second file of a batch: its commit is built on the commit of the first
C19_Witness ==
  LET fr == call["w1"]
  IN /\ fr.pc = "ref" /\ fr.idx = 2 /\ fr.commitSHA # 0
     /\ fr.files[1].path # fr.files[2].path
     /\ ref # fr.tip0
     /\ commits[fr.commitSHA].parent = ref
     /\ commits[ref].parent = fr.tip0

\* the steps of a file before the reference is created or updated
ObjectSteps ==
  {"init_blob", "init_tree", "init_commit", "blob", "base_ref", "base_commit",
   "tree", "commit"}

LastSent(fr) == fr.sent[Len(fr.sent)]

\* the commit main named when the processing of the current file began
TipAtFileStart(fr) ==
  IF Published("w1") = <<>> THEN fr.tip0 ELSE Published("w1")[Len(Published("w1"))]

\* C20: when the blob, base-fetch, tree or commit step of a file fails, the
\* call returns that error having sent nothing after the failed request,
\* nothing the platform stores is removed, and main names the commit it named
\* when the file's processing began; main changes only by the create-reference
\* or update-reference request, to the commit that request names
C20_FailureLeavesRef ==
  /\ [][LET fr == call["w1"]
            to == call'["w1"]
        IN /\ (fr.pc \in ObjectSteps \cup {"probe_ref", "probe_commit"} /\ to # fr)
              => /\ ref' = ref
                 /\ Len(to.sent) = Len(fr.sent) + 1
           /\ (fr.pc \in ObjectSteps /\ to # fr /\ LastSent(to).res \in {"fail", "empty"})
              => /\ to.pc = "returned"
                 /\ to.err = TransportErr(LastSent(to).res)
           /\ (fr.pc \in ObjectSteps /\ to.pc = "returned") => to.err # "nil"
           /\ (fr.pc = "returned" /\ fr.err # "nil") => to.sent = fr.sent \/ to.sent = <<>>
           /\ IsPrefix(blobs, blobs') /\ IsPrefix(trees, trees') /\ IsPrefix(commits, commits')
           /\ ref' # ref
              => /\ fr.pc \in {"init_ref", "ref"}
                 /\ LastSent(to).op \in {"post_ref", "patch_ref"}
                 /\ ref' = LastSent(to).shas[1]]_vars
  /\ [](LET fr == call["w1"]
        IN (fr.pc = "returned" /\ fr.err # "nil"
            /\ LastSent(fr).op \notin {"post_ref", "patch_ref"})
           => ref = TipAtFileStart(fr))

\* the tree request of the second file failed after the first file's commit
\* was published: the blob of the second file stays, main names the first commit
C20_Witness ==
  LET fr == call["w1"]
  IN /\ fr.pc = "returned" /\ fr.err = "Http"
     /\ fr.idx = 2
     /\ LastSent(fr).op = "post_tree" /\ LastSent(fr).res = "fail"
     /\ Len(Published("w1")) = 1
     /\ ref = Published("w1")[1]
     /\ ref # fr.tip0
     /\ Len(blobs) = 3
     /\ \A t \in 1..Len(trees) : \A q \in Paths : trees[t][q] # 3

----------------------------------------------------------------------------
(* Properties of a failing batch and of the probe, single writer (SpecCommit) *)

\* C21: when the call fails at the i-th file no request is sent for a later
\* file: a refused request is the last of the call, the requests go through
\* the files in order, and at the return none is for a file after the i-th;
\* the commits made for files 1..i-1 are on main, each on the one before, and
\* hold their files; a bootstrap, failed or not, sends requests for the first
\* file alone
C21_FailureStopsBatch ==
  LET fr == call["w1"]
      pub == Published("w1")
  IN /\ \A j \in 1..Len(fr.sent) :
          /\ fr.sent[j].k <= fr.idx
          /\ j > 1 => fr.sent[j - 1].k <= fr.sent[j].k
          /\ j < Len(fr.sent) => /\ fr.sent[j].res # "fail"
                                 /\ fr.sent[j].res = "empty" => j = 1
     /\ fr.tip0 = 0 => \A j \in 1..Len(fr.sent) : fr.sent[j].k <= 1
     /\ (fr.pc = "returned" /\ fr.err # "nil" /\ fr.tip0 # 0 /\ fr.idx >= 1)
        => /\ Len(pub) >= fr.idx - 1
           /\ \A j \in 1..(fr.idx - 1) :
                /\ OnMain(pub[j])
                /\ commits[pub[j]].parent = IF j = 1 THEN fr.tip0 ELSE pub[j - 1]
                /\ ContentAt(commits[pub[j]].tree, fr.files[j].path) = fr.files[j].content

\* the commit request of the second of two files was refused: the first file's
\* commit is the tip of main
C21_Witness ==
  LET fr == call["w1"]
  IN /\ fr.pc = "returned" /\ fr.err = "Http"
     /\ Len(fr.files) = 2 /\ fr.idx = 2
     /\ LastSent(fr).op = "post_commit" /\ LastSent(fr).k = 2
     /\ fr.tip0 # 0
     /\ Len(Published("w1")) = 1
     /\ ref = Published("w1")[1]
     /\ commits[ref].parent = fr.tip0

\* the bootstrap of the first of two files failed: nothing was sent for the second
C21_BootstrapFailureReached ==
  LET fr == call["w1"]
  IN /\ fr.pc = "returned" /\ fr.err # "nil"
     /\ Len(fr.files) = 2 /\ fr.tip0 = 0
     /\ LastSent(fr).op = "post_tree"
     /\ ref = 0

InitSteps == {"init_blob", "init_tree", "init_commit", "init_ref"}

\* C22: the call takes the bootstrap path exactly when a request of the probe
\* is answered "Git Repository is empty" and the batch is not empty; on every
\* other failure of the probe it returns an error having sent the requests of
\* the probe alone, and the bootstrap is entered from the probe only
C22_BootstrapOnlyOnEmpty ==
  /\ [][LET fr == call["w1"]
            to == call'["w1"]
        IN /\ (fr.pc \in {"probe_ref", "probe_commit"} /\ to # fr)
              => /\ to.pc = "init_blob"
                    <=> (IsEmptyRepoError(TransportErr(LastSent(to).res))
                         /\ Len(fr.files) > 0)
                 /\ to.pc = "returned"
                    => \A j \in 1..Len(to.sent) : to.sent[j].op \in {"get_ref", "get_commit"}
                 /\ (to.pc = "returned" /\ LastSent(to).res # "ok") => to.err # "nil"
                 /\ platform' = platform
           /\ (to.pc \in InitSteps /\ fr.pc \notin InitSteps)
              => fr.pc \in {"probe_ref", "probe_commit"}]_vars
  /\ [](LET fr == call["w1"]
        IN (\E j \in 1..Len(fr.sent) : fr.sent[j].op = "post_ref")
           => (fr.sent[1].res = "empty" /\ Len(fr.files) > 0))

\* the probe was refused for another reason on a repository without a commit:
\* the call returned the error after that one request
C22_Witness ==
  LET fr == call["w1"]
  IN /\ fr.pc = "returned" /\ fr.err = "Http"
     /\ ref = 0
     /\ Len(fr.files) = 2
     /\ Len(fr.sent) = 1
     /\ fr.sent[1].op = "get_ref" /\ fr.sent[1].res = "fail"
     /\ blobs = <<>>

\* the bootstrap taken: the probe answered "Git Repository is empty"
C22_BootstrapReached ==
  LET fr == call["w1"]
  IN /\ fr.pc = "init_tree"
     /\ fr.sent[1].res = "empty"
     /\ Len(fr.sent) = 2

\* C23: a successful steady-state commit of a file changes the tree of main at
\* the file's path only: the new tip tree holds the file's content at its path,
\* whatever was there, and at every other path what the tip tree before held
C23_OnlyPathChanges ==
  [][LET fr == call["w1"]
         to == call'["w1"]
     IN (fr.pc = "ref" /\ to # fr /\ LastSent(to).res = "ok")
        => LET f == fr.files[fr.idx]
           IN /\ ref # 0
              /\ ref' = fr.commitSHA
              /\ ContentAt(commits[ref'].tree, f.path) = f.content
              /\ \A q \in Paths \ {f.path} :
                   ContentAt(commits[ref'].tree, q) = ContentAt(commits[ref].tree, q)]_vars

\* README.md is replaced on a branch that holds main.go too
C23_Witness ==
  LET fr == call["w1"]
  IN /\ fr.pc = "returned" /\ Succeeded(fr) /\ fr.tip0 # 0
     /\ fr.files = <<[path |-> "README.md", content |-> "c2"]>>
     /\ ContentAt(commits[fr.tip0].tree, "README.md") = AutoReadme
     /\ ContentAt(commits[fr.tip0].tree, "main.go") = "c1"
     /\ commits[ref].parent = fr.tip0
     /\ ContentAt(commits[ref].tree, "README.md") = "c2"
     /\ ContentAt(commits[ref].tree, "main.go") = "c1"

----------------------------------------------------------------------------
(* Retries and termination of the init command (Spec, SpecLive) *)

\* the requests of the run for one step
StepReqs(step) == SelectSeq(reqs, LAMBDA r : r.step = step)

\* C24: no request is sent twice in a run: repository creation, the task
\* request and the README request at most once each, issue creation once per
\* task and in the order of the tasks, each request of the commit engine once
\* per file; a refused request is therefore never sent again
C24_NoRetry ==
  /\ \A step \in {"create_repo", "tasks", "readme"} : Len(StepReqs(step)) <= 1
  /\ Len(IssueReqs) <= Len(run.tasks)
  /\ \A i \in 1..Len(IssueReqs) : IssueReqs[i].arg.title = run.tasks[i].title
  /\ \A i, j \in 1..Len(GitReqs) :
       (GitReqs[i].op = GitReqs[j].op /\ GitReqs[i].k = GitReqs[j].k) => i = j

\* a run that went on after a refused issue request and ended on a refused
\* update of the reference
C24_Witness ==
  /\ run.pc = "exited" /\ run.exit = 1
  /\ Len(run.tasks) = 2
  /\ Len(IssueReqs) = 2
  /\ Failed(IssueReqs[1]) /\ Failed(IssueReqs[2])
  /\ Len(GitReqs) = 8
  /\ GitReqs[8].op = "patch_ref" /\ GitReqs[8].res = "fail"

\* a request of the run is waiting for a response that never comes
Hung == run.pc = "hung" \/ (run.pc = "committing" /\ call["w1"].pc = "hung")

\* C25: a run whose every request is answered ends, completed or aborted, and
\* has by then sent at most three requests plus one per returned task and at
\* most two requests of the probe and six of the README's commit; a run one of
\* whose requests is never answered never ends
C25_Termination ==
  /\ <>(run.pc = "exited" \/ Hung)
  /\ [](/\ Len(reqs) <= 3 + Len(run.tasks)
        /\ Len(GitReqs) <= 2 + 6)
  /\ [](Hung => [](run.pc # "exited"))

\* the update of the reference, last request of a run with two tasks, is never
\* answered
C25_Witness ==
  /\ Hung
  /\ run.pc = "committing"
  /\ Len(run.tasks) = 2
  /\ Len(reqs) = 5
  /\ Len(GitReqs) = 8
  /\ GitReqs[8].op = "patch_ref" /\ GitReqs[8].res = "pending"

----------------------------------------------------------------------------
(* Properties of the reference update and of the SHAs sent (SpecCommit) *)

\* C26: whenever the call returns an error for a file of the steady-state
\* path, main has not been moved to that file's commit
C26_ErrorMeansRefNotMoved ==
  LET fr == call["w1"]
  IN (fr.pc = "returned" /\ fr.err # "nil" /\ LastSent(fr).op = "patch_ref")
     => ref # LastSent(fr).shas[1]

\* C27: no create-tree, create-commit, create-reference or update-reference
\* request carries an empty SHA
C27_NoEmptySHASent ==
  LET fr == call["w1"]
  IN \A j \in 1..Len(fr.sent) :
       fr.sent[j].op \in {"post_tree", "post_commit", "post_ref", "patch_ref"}
       => \A i \in 1..Len(fr.sent[j].shas) : fr.sent[j].shas[i] # 0

----------------------------------------------------------------------------
(* The empty batch (SpecCommit) *)

ProbeSteps == {"probe_ref", "probe_commit"}

\* C28: a call with an empty batch sends nothing but the probe's two GETs and
\* changes nothing on the platform; it returns nil once the probe has read
\* main's commit, and on an empty repository it returns the probe's error
\* after the first GET, without bootstrapping
C28_EmptyBatchIsNoOp ==
  [][LET fr == call["w1"]
         to == call'["w1"]
     IN (fr.files = <<>> /\ fr.pc \in ProbeSteps)
        => /\ platform' = platform
           /\ to.pc \in {"probe_commit", "returned"}
           /\ \A j \in 1..Len(to.sent) : to.sent[j].op \in {"get_ref", "get_commit"}
           /\ to.pc = "returned"
              => /\ (\A j \in 1..Len(to.sent) : to.sent[j].res = "ok")
                    => to.err = "nil" /\ Len(to.sent) = 2
                 /\ ref = 0
                    => /\ Len(to.sent) = 1
                       /\ to.err = TransportErr(to.sent[1].res)
                       /\ to.err # "nil"]_vars

\* an empty batch on a repository with history has returned nil after the probe
C28_Witness ==
  LET fr == call["w1"]
  IN /\ fr.pc = "returned" /\ fr.files = <<>> /\ fr.err = "nil"
     /\ ref # 0
     /\ Len(fr.sent) = 2
     /\ fr.sent[1].op = "get_ref" /\ fr.sent[2].op = "get_commit"

\* an empty batch on an empty repository has returned the probe's error
C28_EmptyRepoReached ==
  LET fr == call["w1"]
  IN /\ fr.pc = "returned" /\ fr.files = <<>> /\ fr.err = "EmptyRepo"
     /\ ref = 0 /\ commits = <<>> /\ blobs = <<>>
     /\ Len(fr.sent) = 1 /\ fr.sent[1].res = "empty"

====
